---- MODULE Spec2Model ----
(***************************************************************************)
(* Model of the SQL Server connection diagnostic script                    *)
(* (src/python-script.py): run_diagnostics and the probes it calls.        *)
(*                                                                         *)
(* Python strings the script inspects (SERVER, PORT, driver names) are     *)
(* sequences of one-character strings, so that split(','), lower(), the    *)
(* `in` substring test and int() are computed character by character.      *)
(* Messages the script only concatenates are TLA+ strings.                 *)
(***************************************************************************)
EXTENDS Integers, Sequences, FiniteSets, TLC

(***************************************************************************)
(* Bounds                                                                  *)
(***************************************************************************)
\* Longest configured TIMEOUTS list explored.
MaxTimeouts == 2

(***************************************************************************)
(* String helpers (Python str methods used by the script)                  *)
(***************************************************************************)
UpperChars == <<"A","B","C","D","E","F","G","H","I","J","K","L","M",
                "N","O","P","Q","R","S","T","U","V","W","X","Y","Z">>
LowerChars == <<"a","b","c","d","e","f","g","h","i","j","k","l","m",
                "n","o","p","q","r","s","t","u","v","w","x","y","z">>
DigitChars == <<"0","1","2","3","4","5","6","7","8","9">>

\* str.lower() on one character
LowerChar(c) ==
    IF \E i \in 1..Len(UpperChars) : UpperChars[i] = c
    THEN LowerChars[CHOOSE i \in 1..Len(UpperChars) : UpperChars[i] = c]
    ELSE c

\* str.lower()
Lower(s) == [i \in 1..Len(s) |-> LowerChar(s[i])]

\* needle in s   (Python substring test)
Contains(needle, s) ==
    \E i \in 0..(Len(s) - Len(needle)) : SubSeq(s, i + 1, i + Len(needle)) = needle

\* s.split(sep)[0] : the text before the first separator (all of s if none)
SplitFirst(s, sep) ==
    LET idx == {i \in 1..Len(s) : s[i] = sep}
    IN  IF idx = {} THEN s
        ELSE SubSeq(s, 1, (CHOOSE i \in idx : \A j \in idx : i <= j) - 1)

IsDigit(c) == \E i \in 1..Len(DigitChars) : DigitChars[i] = c
DigitVal(c) == (CHOOSE i \in 1..Len(DigitChars) : DigitChars[i] = c) - 1

\* int(s) succeeds (otherwise it raises ValueError)
IntParses(s) == Len(s) > 0 /\ \A i \in 1..Len(s) : IsDigit(s[i])

RECURSIVE IntValue(_)
\* int(s) for a string of decimal digits
IntValue(s) ==
    IF Len(s) = 0 THEN 0
    ELSE 10 * IntValue(SubSeq(s, 1, Len(s) - 1)) + DigitVal(s[Len(s)])

(***************************************************************************)
(* Configuration (module-level constants of the script, lines 21-29) and   *)
(* the values an operator may replace them with                            *)
(***************************************************************************)
DRIVER == <<"O","D","B","C"," ","D","r","i","v","e","r"," ","1","7"," ",
            "f","o","r"," ","S","Q","L"," ","S","e","r","v","e","r">>

DefaultPort == <<"1","4","3","3">>
Ports == {DefaultPort, <<"s","q","l">>}

Servers == {
    <<"l","o","c","a","l","h","o","s","t",",","1","4","3","3">>,
    <<"1","2","7",".","0",".","0",".","1">>,
    <<":",":","1">>,
    <<"L","o","c","a","l","H","o","s","t">>,
    <<"d","b","1",",","1","4","3","3">>,
    <<"a",".",".","b">> }

\* the first two budgets of TIMEOUTS = [5, 15, 30, 60, 120]
Budgets == {5, 15}
TimeoutLists == UNION {[1..n -> Budgets] : n \in 0..MaxTimeouts}

\* what pyodbc.drivers() may enumerate on the machine
DriverLists == {
    <<DRIVER, <<"S","Q","L"," ","S","e","r","v","e","r">> >>,
    << <<"S","Q","L"," ","S","e","r","v","e","r">>,
       <<"o","d","b","c"," ","d","r","i","v","e","r"," ","1","7"," ",
         "f","o","r"," ","s","q","l"," ","s","e","r","v","e","r">>,
       <<"M","y","S","Q","L"," ","O","D","B","C"," ","8",".","0"," ",
         "D","r","i","v","e","r">> >>,
    << <<"S","Q","L","i","t","e","3">> >> }

LoopbackNames == { <<"l","o","c","a","l","h","o","s","t">>,
                   <<"1","2","7",".","0",".","0",".","1">>,
                   <<":",":","1">> }

(***************************************************************************)
(* State                                                                   *)
(***************************************************************************)
VARIABLES
    SERVER, PORT, TIMEOUTS,  \* configuration, fixed for the run
    drivers,                 \* what pyodbc.drivers() returns
    pc,                      \* position of the run in run_diagnostics / __main__
    bound,                   \* names of the locals of run_diagnostics assigned so far
    host, host_reachable, port_open,
    driver_available, available_drivers, alternative_drivers,
    sql_auth_success, win_auth_success, no_port_success, min_conn_success,
    results,                 \* local `results` of test_connection_with_timeouts
    timeout_results,
    sockets,                 \* every socket created: [by, state]
    sockOps,                 \* socket-module operations performed, in order
    calls,                   \* probes invoked, in order
    attempts,                \* pyodbc.connect calls: [conn_str, timeout]
    openConnections,         \* connections opened and not closed so far
    last,                    \* what the latest test_connection_string call did
    loggedDrivers, loggedAlternatives, recommendations,
    raised                   \* exception that left run_diagnostics ("" if none)

config == <<SERVER, PORT, TIMEOUTS, drivers>>
locals == <<host, host_reachable, port_open, driver_available, available_drivers,
            alternative_drivers, sql_auth_success, win_auth_success,
            no_port_success, min_conn_success, timeout_results>>
sweep  == <<results>>
net    == <<sockets, sockOps>>
db     == <<attempts, openConnections, last>>
logs   == <<loggedDrivers, loggedAlternatives, recommendations>>
vars   == <<config, pc, bound, locals, sweep, net, calls, db, logs, raised>>

NoCall == [called |-> FALSE, success |-> FALSE, elapsed |-> 0, message |-> "",
           propagated |-> FALSE, opened |-> 0, closed |-> 0,
           fail |-> "none", kind |-> "", text |-> "", version |-> ""]

Init ==
    /\ SERVER \in Servers
    /\ PORT \in Ports
    /\ TIMEOUTS \in TimeoutLists
    /\ drivers \in DriverLists
    /\ pc = "reachability"
    /\ bound = {}
    /\ host = <<>>
    /\ host_reachable = FALSE
    /\ port_open = FALSE
    /\ driver_available = FALSE
    /\ available_drivers = <<>>
    /\ alternative_drivers = <<>>
    /\ sql_auth_success = FALSE
    /\ win_auth_success = FALSE
    /\ no_port_success = FALSE
    /\ min_conn_success = FALSE
    /\ results = <<>>
    /\ timeout_results = <<>>
    /\ sockets = <<>>
    /\ sockOps = <<>>
    /\ calls = <<>>
    /\ attempts = <<>>
    /\ openConnections = 0
    /\ last = NoCall
    /\ loggedDrivers = <<>>
    /\ loggedAlternatives = <<>>
    /\ recommendations = <<>>
    /\ raised = ""

(***************************************************************************)
(* Resource lifetime.  The script relies on CPython reference counting:    *)
(* an object held only by a function's local is finalized (socket closed,  *)
(* ODBC connection disconnected) when that function's frame is torn down.  *)
(***************************************************************************)
\* sockets owned by locals of `frame` that are still open when it returns
ReleaseFrame(socks, frame) ==
    [i \in DOMAIN socks |->
        IF socks[i].by = frame /\ socks[i].state = "open"
        THEN [socks[i] EXCEPT !.state = "finalized"]
        ELSE socks[i]]

SockOp(op, by, port) == [op |-> op, by |-> by, port |-> port]

(***************************************************************************)
(* Reachability Probe (run_diagnostics, lines 133-151)                     *)
(***************************************************************************)
IsLocalhostNoV6(h) == Lower(h) \in (LoopbackNames \ { <<":",":","1">> })

\* line 135: host.lower() in ('localhost', '127.0.0.1', '::1')
IsLocalhost(h) == Lower(h) \in LoopbackNames

\* a host name with an empty label cannot be IDNA-encoded: gethostbyname
\* raises UnicodeError, which is not a socket.error
HasEmptyLabel(h) ==
    \/ Len(h) > 0 /\ h[1] = "."
    \/ Contains(<<".", ".">>, h)

ReachOutcomes(h) ==
    IF HasEmptyLabel(h) THEN {"UnicodeError"}
    ELSE {"gaierror", "refused", "connected"}

\* lines 139-151: what the try block does for environment outcome o
ReachabilityProbe(h, o) ==
    LET resolve == <<SockOp("gethostbyname", "run_diagnostics", 0)>>
        connect == <<SockOp("socket", "run_diagnostics", 0),
                     SockOp("settimeout", "run_diagnostics", 0),
                     SockOp("connect", "run_diagnostics", 1)>>
        sock    == <<[by |-> "run_diagnostics", state |-> "open"]>>
    IN  CASE o = "UnicodeError" ->
               [reachable |-> FALSE, propagated |-> TRUE, ops |-> resolve, socks |-> <<>>]
          [] o = "gaierror" ->
               [reachable |-> FALSE, propagated |-> FALSE, ops |-> resolve, socks |-> <<>>]
          [] o = "refused" ->
               [reachable |-> FALSE, propagated |-> FALSE, ops |-> resolve \o connect,
                socks |-> sock]
          [] o = "connected" ->
               [reachable |-> TRUE, propagated |-> FALSE, ops |-> resolve \o connect,
                socks |-> sock]

Reachability ==
    /\ pc = "reachability"
    /\ LET h == SplitFirst(SERVER, ",")
       IN  /\ host' = h
           /\ IF IsLocalhost(h)
              THEN /\ host_reachable' = TRUE
                   /\ bound' = bound \cup {"host", "host_reachable"}
                   /\ pc' = "port"
                   /\ UNCHANGED <<net, raised>>
              ELSE \E o \in ReachOutcomes(h) :
                     LET r == ReachabilityProbe(h, o)
                     IN  /\ sockOps' = sockOps \o r.ops
                         /\ sockets' = sockets \o r.socks
                         /\ IF r.propagated
                            THEN /\ raised' = o
                                 /\ pc' = "raised"
                                 /\ bound' = bound \cup {"host"}
                                 /\ UNCHANGED host_reachable
                            ELSE /\ host_reachable' = r.reachable
                                 /\ bound' = bound \cup {"host", "host_reachable"}
                                 /\ pc' = "port"
                                 /\ UNCHANGED raised
    /\ UNCHANGED <<config, port_open, driver_available, available_drivers,
                   alternative_drivers, sql_auth_success, win_auth_success,
                   no_port_success, min_conn_success, timeout_results,
                   sweep, calls, db, logs>>

(***************************************************************************)
(* Port Probe (check_port_open, lines 31-41; called at lines 154-160)      *)
(***************************************************************************)
IsIPv4Literal(h) == Len(h) > 0 /\ \A i \in 1..Len(h) : IsDigit(h[i]) \/ h[i] = "."
IsIPv6Literal(h) == \E i \in 1..Len(h) : h[i] = ":"

\* int(port) raises ValueError; an AF_INET socket cannot address an IPv6
\* literal (gaierror); a name may fail to resolve (gaierror); otherwise
\* connect_ex returns 0 or an errno
PortOutcomes(h, port) ==
    IF ~IntParses(port) THEN {"ValueError"}
    ELSE IF IsIPv6Literal(h) THEN {"gaierror"}
    ELSE IF IsIPv4Literal(h) THEN {"ok", "errno"}
    ELSE {"ok", "errno", "gaierror"}

check_port_open(h, port, o) ==
    LET create == <<SockOp("socket", "check_port_open", 0),
                    SockOp("settimeout", "check_port_open", 0)>>
    IN  CASE o = "ValueError" ->
               \* int(port) raises before connect_ex is called; close() is skipped
               [open |-> FALSE, ops |-> create,
                socks |-> ReleaseFrame(<<[by |-> "check_port_open", state |-> "open"]>>,
                                       "check_port_open")]
          [] o = "gaierror" ->
               [open |-> FALSE,
                ops |-> Append(create, SockOp("connect_ex", "check_port_open", IntValue(port))),
                socks |-> ReleaseFrame(<<[by |-> "check_port_open", state |-> "open"]>>,
                                       "check_port_open")]
          [] o \in {"ok", "errno"} ->
               [open |-> (o = "ok"),
                ops |-> Append(create, SockOp("connect_ex", "check_port_open", IntValue(port))),
                socks |-> <<[by |-> "check_port_open", state |-> "closed"]>>]

BindPortOpenMisspelt(b) == b \cup {"port_opened"}

\* line 156: the assignment binds the local port_open
BindPortOpen(b) == b \cup {"port_open"}

PortStage ==
    /\ pc = "port"
    /\ IF host_reachable
       THEN \E o \in PortOutcomes(host, PORT) :
              LET r == check_port_open(host, PORT, o)
              IN  /\ calls' = Append(calls, "check_port_open")
                  /\ sockOps' = sockOps \o r.ops
                  /\ sockets' = sockets \o r.socks
                  /\ port_open' = r.open
                  /\ bound' = BindPortOpen(bound)
       ELSE UNCHANGED <<calls, net, port_open, bound>>
    /\ pc' = "driver"
    /\ UNCHANGED <<config, host, host_reachable, driver_available, available_drivers,
                   alternative_drivers, sql_auth_success, win_auth_success,
                   no_port_success, min_conn_success, timeout_results,
                   sweep, db, logs, raised>>

(***************************************************************************)
(* Driver Probe (check_driver_availability, lines 108-122; 162-171)        *)
(***************************************************************************)
InListIgnoringCase(d, list) == \E i \in 1..Len(list) : Lower(list[i]) = Lower(d)

\* line 115: DRIVER in available_drivers (exact match)
InList(d, list) == \E i \in 1..Len(list) : list[i] = d

check_driver_availability ==
    [driver_available |-> InList(DRIVER, drivers),
     available_drivers |-> drivers,
     logged |-> drivers]

SqlServerNeedle == <<"s","q","l"," ","s","e","r","v","e","r">>

AlternativeDriversCaseSensitive(list) ==
    LET Test(d) == Contains(SqlServerNeedle, d) IN SelectSeq(list, Test)

\* line 167: [d for d in available_drivers if 'sql server' in d.lower()]
AlternativeDrivers(list) ==
    LET Test(d) == Contains(SqlServerNeedle, Lower(d)) IN SelectSeq(list, Test)

DriverStage ==
    /\ pc = "driver"
    /\ LET r == check_driver_availability
       IN  /\ calls' = Append(calls, "check_driver_availability")
           /\ driver_available' = r.driver_available
           /\ available_drivers' = r.available_drivers
           /\ loggedDrivers' = r.logged
           /\ IF ~r.driver_available
              THEN /\ alternative_drivers' = AlternativeDrivers(r.available_drivers)
                   /\ loggedAlternatives' = AlternativeDrivers(r.available_drivers)
                   /\ bound' = bound \cup {"driver_available", "available_drivers",
                                           "alternative_drivers"}
              ELSE /\ UNCHANGED <<alternative_drivers, loggedAlternatives>>
                   /\ bound' = bound \cup {"driver_available", "available_drivers"}
    /\ pc' = "gate"
    /\ UNCHANGED <<config, host, host_reachable, port_open, sql_auth_success,
                   win_auth_success, no_port_success, min_conn_success,
                   timeout_results, sweep, net, db, recommendations, raised>>

\* line 174: host_reachable and driver_available
Prerequisites(hr, da) == hr /\ da

\* lines 173-176: return early unless the prerequisites are met
Gate ==
    /\ pc = "gate"
    /\ IF Prerequisites(host_reachable, driver_available)
       THEN /\ pc' = "sql_auth"
            /\ UNCHANGED sockets
       ELSE /\ pc' = "done"
            /\ sockets' = ReleaseFrame(sockets, "run_diagnostics")
    /\ UNCHANGED <<config, bound, locals, sweep, sockOps, calls, db, logs, raised>>

(***************************************************************************)
(* Connection Probe (test_connection_string, lines 43-61)                  *)
(***************************************************************************)
PyodbcErrors == {"Error", "InterfaceError", "OperationalError", "ProgrammingError"}
ExceptionClasses == PyodbcErrors \cup {"TypeError"}

\* what the database side may do to one attempt: the step that raises
\* ("none": the version query completes), the exception, the server version
ConnOutcomes == {
    [fail |-> "none",     kind |-> "",                 text |-> "",
     version |-> "Microsoft SQL Server 2019"],
    [fail |-> "connect",  kind |-> "InterfaceError",   text |-> "Login failed for user",
     version |-> ""],
    [fail |-> "cursor",   kind |-> "ProgrammingError", text |-> "Attempt to use a closed connection.",
     version |-> ""],
    [fail |-> "execute",  kind |-> "OperationalError", text |-> "Query timeout expired",
     version |-> ""],
    [fail |-> "fetchone", kind |-> "Error",            text |-> "",
     version |-> ""],
    [fail |-> "index",    kind |-> "TypeError",        text |-> "'NoneType' object is not subscriptable",
     version |-> ""] }

\* time.time() - start_time, one tick per library call made
\* (connect, cursor, execute, fetchone)
Elapsed(fail) ==
    CASE fail = "connect" -> 1
      [] fail = "cursor"  -> 2
      [] fail = "execute" -> 3
      [] OTHER            -> 4

CatchesPyodbcOnly(kind) == kind \in PyodbcErrors

\* line 56: except Exception
Catches(kind) == kind \in ExceptionClasses

FailureMessageTextOnly(kind, text) == text

\* line 61: error_type + ": " + error_msg
FailureMessage(kind, text) == kind \o ": " \o text

\* line 48, leaving the with block: pyodbc's Connection.__exit__ commits
\* (or rolls back when an exception is passing); the handle stays as it is
ConnectionExit(conn, exc) == conn

DropLocalKept(conn) == conn

\* lines 55/61, the return: the frame's local `conn` is the only reference,
\* so the connection object is finalized and the handle disconnected
DropLocal(conn) == IF conn = "open" THEN "closed" ELSE conn

test_connection_string(conn_str, timeout, env) ==
    LET failed   == env.fail # "none"
        inWith   == IF env.fail = "connect" THEN "none" ELSE "open"
        atExit   == IF inWith = "open" THEN ConnectionExit(inWith, failed) ELSE inWith
        atReturn == DropLocal(atExit)
    IN  [called     |-> TRUE,
         success    |-> ~failed,
         elapsed    |-> Elapsed(env.fail),
         message    |-> IF failed THEN FailureMessage(env.kind, env.text) ELSE env.version,
         propagated |-> failed /\ ~Catches(env.kind),
         opened     |-> IF inWith = "open" THEN 1 ELSE 0,
         closed     |-> IF atReturn = "closed" THEN 1 ELSE 0,
         fail       |-> env.fail,
         kind       |-> env.kind,
         text       |-> env.text,
         version    |-> env.version]

\* connection strings (lines 65, 70, 78, 93, 105) as the fields they set
ServerWithPort == SERVER \o <<",">> \o PORT
TrustedConnStr == [server |-> ServerWithPort, database |-> "DATABASE", auth |-> "Trusted_Connection"]
SqlAuthConnStr == [server |-> ServerWithPort, database |-> "DATABASE", auth |-> "UID/PWD"]
NoPortConnStr  == [server |-> SERVER,         database |-> "DATABASE", auth |-> "UID/PWD"]
MinimalConnStr == [server |-> ServerWithPort, database |-> "master",   auth |-> "UID/PWD"]

\* default of the timeout parameter, line 43
DefaultTimeout == 30

test_trusted_connection(env)      == test_connection_string(TrustedConnStr, DefaultTimeout, env)
test_sql_auth_connection(env)     == test_connection_string(SqlAuthConnStr, DefaultTimeout, env)
test_connection_without_port(env) == test_connection_string(NoPortConnStr, DefaultTimeout, env)
test_minimal_connection(env)      == test_connection_string(MinimalConnStr, DefaultTimeout, env)

\* bookkeeping shared by every call of test_connection_string
Attempted(r, conn_str, timeout) ==
    /\ attempts' = Append(attempts, [conn_str |-> conn_str, timeout |-> timeout])
    /\ openConnections' = openConnections + r.opened - r.closed
    /\ last' = r
    /\ IF r.propagated
       THEN pc' = "raised" /\ raised' = r.kind
       ELSE UNCHANGED raised

(***************************************************************************)
(* Connection tests of run_diagnostics (lines 178-193)                     *)
(***************************************************************************)
SqlAuthStage ==
    /\ pc = "sql_auth"
    /\ \E env \in ConnOutcomes :
         LET r == test_sql_auth_connection(env)
         IN  /\ Attempted(r, SqlAuthConnStr, DefaultTimeout)
             /\ calls' = Append(calls, "test_sql_auth_connection")
             /\ IF r.propagated
                THEN UNCHANGED <<sql_auth_success, bound>>
                ELSE /\ sql_auth_success' = r.success
                     /\ bound' = bound \cup {"sql_auth_success"}
                     /\ pc' = "win_auth"
    /\ UNCHANGED <<config, host, host_reachable, port_open, driver_available,
                   available_drivers, alternative_drivers, win_auth_success,
                   no_port_success, min_conn_success, timeout_results,
                   sweep, net, logs>>

WinAuthStage ==
    /\ pc = "win_auth"
    /\ \E env \in ConnOutcomes :
         LET r == test_trusted_connection(env)
         IN  /\ Attempted(r, TrustedConnStr, DefaultTimeout)
             /\ calls' = Append(calls, "test_trusted_connection")
             /\ IF r.propagated
                THEN UNCHANGED <<win_auth_success, bound>>
                ELSE /\ win_auth_success' = r.success
                     /\ bound' = bound \cup {"win_auth_success"}
                     /\ pc' = "no_port"
    /\ UNCHANGED <<config, host, host_reachable, port_open, driver_available,
                   available_drivers, alternative_drivers, sql_auth_success,
                   no_port_success, min_conn_success, timeout_results,
                   sweep, net, logs>>

NoPortStage ==
    /\ pc = "no_port"
    /\ \E env \in ConnOutcomes :
         LET r == test_connection_without_port(env)
         IN  /\ Attempted(r, NoPortConnStr, DefaultTimeout)
             /\ calls' = Append(calls, "test_connection_without_port")
             /\ IF r.propagated
                THEN UNCHANGED <<no_port_success, bound>>
                ELSE /\ no_port_success' = r.success
                     /\ bound' = bound \cup {"no_port_success"}
                     /\ pc' = "minimal"
    /\ UNCHANGED <<config, host, host_reachable, port_open, driver_available,
                   available_drivers, alternative_drivers, sql_auth_success,
                   win_auth_success, min_conn_success, timeout_results,
                   sweep, net, logs>>

MinimalStage ==
    /\ pc = "minimal"
    /\ \E env \in ConnOutcomes :
         LET r == test_minimal_connection(env)
         IN  /\ Attempted(r, MinimalConnStr, DefaultTimeout)
             /\ calls' = Append(calls, "test_minimal_connection")
             /\ IF r.propagated
                THEN UNCHANGED <<min_conn_success, bound>>
                ELSE /\ min_conn_success' = r.success
                     /\ bound' = bound \cup {"min_conn_success"}
                     /\ pc' = "sweep_call"
    /\ UNCHANGED <<config, host, host_reachable, port_open, driver_available,
                   available_drivers, alternative_drivers, sql_auth_success,
                   win_auth_success, no_port_success, timeout_results,
                   sweep, net, logs>>

(***************************************************************************)
(* Timeout Sweep (test_connection_with_timeouts, lines 73-89)              *)
(***************************************************************************)
SweepBreaksNever(success) == FALSE

\* lines 86-87: if success: break
SweepBreaks(success) == success

\* the for loop has another iteration to run
LoopContinues ==
    /\ Len(results) < Len(TIMEOUTS)
    /\ IF results = <<>> THEN TRUE
       ELSE ~SweepBreaks(results[Len(results)].success)

\* lines 75, 197: the call, results = []
SweepCall ==
    /\ pc = "sweep_call"
    /\ calls' = Append(calls, "test_connection_with_timeouts")
    /\ results' = <<>>
    /\ pc' = "sweep_loop"
    /\ UNCHANGED <<config, bound, locals, net, db, logs, raised>>

\* lines 77-87: one iteration of the loop
SweepIteration ==
    /\ pc = "sweep_loop"
    /\ LoopContinues
    /\ \E env \in ConnOutcomes :
         LET timeout == TIMEOUTS[Len(results) + 1]
             r       == test_connection_string(SqlAuthConnStr, timeout, env)
         IN  /\ Attempted(r, SqlAuthConnStr, timeout)
             /\ IF r.propagated
                THEN UNCHANGED results
                ELSE /\ results' = Append(results, [timeout |-> timeout,
                                                    success |-> r.success,
                                                    elapsed |-> r.elapsed,
                                                    message |-> r.message])
                     /\ pc' = "sweep_loop"
    /\ UNCHANGED <<config, bound, locals, net, calls, logs>>

\* lines 89, 197: return results; timeout_results = ...
SweepReturn ==
    /\ pc = "sweep_loop"
    /\ ~LoopContinues
    /\ timeout_results' = results
    /\ bound' = bound \cup {"timeout_results"}
    /\ pc' = "summary"
    /\ UNCHANGED <<config, host, host_reachable, port_open, driver_available,
                   available_drivers, alternative_drivers, sql_auth_success,
                   win_auth_success, no_port_success, min_conn_success,
                   sweep, net, calls, db, logs, raised>>

(***************************************************************************)
(* Summary and recommendations (lines 199-241)                             *)
(***************************************************************************)
AnySuccess(tr) == \E i \in 1..Len(tr) : tr[i].success

RecommendationEitherAuth(hr, po, sql, win, minc, tr) ==
    IF ~hr THEN 1
    ELSE IF ~po THEN 2
    ELSE IF ~sql \/ ~win THEN 3
    ELSE IF minc /\ ~sql THEN 4
    ELSE IF ~AnySuccess(tr) THEN 5
    ELSE 6

\* lines 216-239: the if/elif chain, as the number of the branch taken
Recommendation(hr, po, sql, win, minc, tr) ==
    IF ~hr THEN 1
    ELSE IF ~po THEN 2
    ELSE IF ~sql /\ ~win THEN 3
    ELSE IF minc /\ ~sql THEN 4
    ELSE IF ~AnySuccess(tr) THEN 5
    ELSE 6

\* lines 204-205 and 220 read port_open whenever host_reachable holds
ReadsPortOpen == host_reachable

Summary ==
    /\ pc = "summary"
    /\ IF ReadsPortOpen /\ "port_open" \notin bound
       THEN /\ raised' = "UnboundLocalError"
            /\ pc' = "raised"
            /\ UNCHANGED <<recommendations, sockets>>
       ELSE /\ recommendations' =
                 Append(recommendations,
                        Recommendation(host_reachable, port_open, sql_auth_success,
                                       win_auth_success, min_conn_success,
                                       timeout_results))
            /\ pc' = "done"
            /\ sockets' = ReleaseFrame(sockets, "run_diagnostics")
            /\ UNCHANGED raised
    /\ UNCHANGED <<config, bound, locals, sweep, sockOps, calls, db,
                   loggedDrivers, loggedAlternatives>>

(***************************************************************************)
(* __main__ (lines 243-248): an exception leaving run_diagnostics is       *)
(* logged with its traceback and the process ends normally                 *)
(***************************************************************************)
MainCatch ==
    /\ pc = "raised"
    /\ pc' = "done"
    /\ sockets' = ReleaseFrame(sockets, "run_diagnostics")
    /\ UNCHANGED <<config, bound, locals, sweep, sockOps, calls, db, logs, raised>>

Next ==
    \/ Reachability
    \/ PortStage
    \/ DriverStage
    \/ Gate
    \/ SqlAuthStage
    \/ WinAuthStage
    \/ NoPortStage
    \/ MinimalStage
    \/ SweepCall
    \/ SweepIteration
    \/ SweepReturn
    \/ Summary
    \/ MainCatch

Spec == Init /\ [][Next]_vars

(***************************************************************************)
(* Properties                                                              *)
(***************************************************************************)
ConnectionProbeCalls == {"test_sql_auth_connection", "test_trusted_connection",
                         "test_connection_without_port", "test_minimal_connection",
                         "test_connection_with_timeouts"}

Called(fn) == \E i \in 1..Len(calls) : calls[i] = fn

NoConnectionProbe ==
    /\ attempts = <<>>
    /\ \A fn \in ConnectionProbeCalls : ~Called(fn)

\* C1: in every finished run whose reachability probe failed, neither the
\* Port Probe nor any Connection Probe was invoked and the recommendation
\* emitted is exactly category 1.
C1_HostUnreachable ==
    (pc = "done" /\ "host_reachable" \in bound /\ ~host_reachable)
        => /\ ~Called("check_port_open")
           /\ NoConnectionProbe
           /\ recommendations = <<1>>

\* C2: in every finished run where the host was reachable and check_port_open
\* returned False, no Connection Probe was invoked and the recommendation
\* emitted is category 2.
C2_PortClosed ==
    (pc = "done" /\ "host_reachable" \in bound /\ host_reachable
                 /\ "port_open" \in bound /\ ~port_open)
        => /\ NoConnectionProbe
           /\ recommendations = <<2>>

\* C3: for a non-empty TIMEOUTS the sweep returns trials whose timeouts are a
\* prefix of TIMEOUTS in order, every trial but the last failed, the last one
\* succeeded or the list is complete, and each trial made exactly one
\* connection attempt (the four earlier probes made one each).
C3_SweepPrefix ==
    (pc \in {"summary", "done"} /\ "timeout_results" \in bound /\ TIMEOUTS # <<>>)
        => LET n == Len(timeout_results)
           IN  /\ n >= 1 /\ n <= Len(TIMEOUTS)
               /\ \A i \in 1..n : timeout_results[i].timeout = TIMEOUTS[i]
               /\ \A i \in 1..(n - 1) : ~timeout_results[i].success
               /\ timeout_results[n].success \/ n = Len(TIMEOUTS)
               /\ Len(attempts) = 4 + n
               /\ \A i \in 1..n : attempts[4 + i].timeout = TIMEOUTS[i]

\* a sweep that stopped at a first success before the list was exhausted
C3_Witness ==
    /\ pc = "summary"
    /\ Len(TIMEOUTS) >= 2
    /\ Len(timeout_results) = 1
    /\ timeout_results[1].success

C5_NeverRaises ==
    last.called =>
        /\ ~last.propagated
        /\ raised \notin ExceptionClasses
        /\ last.fail # "none" =>
             /\ ~last.success
             /\ Len(last.message) > 0
             /\ last.message = last.kind \o ": " \o last.text
        /\ last.success =>
             /\ last.fail = "none"
             /\ last.message = last.version

\* a probe whose fetched row was None (indexing it raised TypeError)
C5_Witness ==
    /\ last.called /\ last.fail = "index"
    /\ ~last.success
    /\ pc = "win_auth"

\* the condition of recommendation category k on the gathered results
CategoryHolds(k) ==
    CASE k = 1 -> ~host_reachable
      [] k = 2 -> ~port_open
      [] k = 3 -> ~win_auth_success /\ ~sql_auth_success
      [] k = 4 -> min_conn_success /\ ~sql_auth_success
      [] k = 5 -> \A i \in 1..Len(timeout_results) : ~timeout_results[i].success
      [] k = 6 -> TRUE

\* C6: a run that emits recommendations emits exactly one category, the first
\* of the six whose condition holds; with host reachable, port open, driver
\* available and both auth variants failed it is category 3.
C6_FirstMatch ==
    /\ recommendations # <<>> =>
         /\ Len(recommendations) = 1
         /\ recommendations[1] \in 1..6
         /\ CategoryHolds(recommendations[1])
         /\ \A j \in 1..(recommendations[1] - 1) : ~CategoryHolds(j)
    /\ (pc = "done" /\ raised = "" /\ host_reachable /\ port_open /\ driver_available
          /\ ~sql_auth_success /\ ~win_auth_success)
         => recommendations = <<3>>

\* category 3 emitted although the conditions of categories 4 and 5 hold too
C6_Witness ==
    /\ recommendations = <<3>>
    /\ min_conn_success
    /\ timeout_results # <<>>
    /\ \A i \in 1..Len(timeout_results) : ~timeout_results[i].success

\* C7: in a finished run with host reachable, port open and DRIVER not an
\* exact member of the enumerated drivers, no Connection Probe or sweep trial
\* ran, the whole driver list was logged, every driver whose lower-cased name
\* contains 'sql server' was logged as an alternative, and nothing was raised.
C7_DriverMissing ==
    (pc = "done" /\ "host_reachable" \in bound /\ host_reachable
                 /\ "port_open" \in bound /\ port_open
                 /\ \A i \in 1..Len(drivers) : drivers[i] # DRIVER)
        => /\ NoConnectionProbe
           /\ results = <<>> /\ timeout_results = <<>>
           /\ loggedDrivers = drivers
           /\ \A i \in 1..Len(drivers) :
                Contains(SqlServerNeedle, Lower(drivers[i]))
                    => \E j \in 1..Len(loggedAlternatives) :
                         loggedAlternatives[j] = drivers[i]
           /\ raised = ""

\* driver missing while a differently-cased name of it is installed
C7_Witness ==
    /\ pc = "done"
    /\ host_reachable /\ port_open
    /\ Len(drivers) = 3
    /\ Len(loggedAlternatives) = 2
    /\ attempts = <<>>

\* C8: when the text of SERVER before the first comma is 'localhost',
\* '127.0.0.1' or '::1', host_reachable is True without any resolution or
\* socket of the reachability stage: every socket operation of the run
\* belongs to the Port Probe and every connect is to the configured port.
C8_LoopbackShortCircuit ==
    (pc # "reachability" /\ SplitFirst(SERVER, ",") \in LoopbackNames)
        => /\ "host_reachable" \in bound /\ host_reachable
           /\ \A i \in 1..Len(sockOps) :
                /\ sockOps[i].by = "check_port_open"
                /\ sockOps[i].op # "gethostbyname"
                /\ sockOps[i].op \in {"connect", "connect_ex"}
                     => sockOps[i].op = "connect_ex" /\ sockOps[i].port = IntValue(PORT)
           /\ \A i \in 1..Len(sockets) : sockets[i].by = "check_port_open"

\* SERVER = 'localhost,1433': the Port Probe connected, nothing came before it
C8_Witness ==
    /\ pc = "driver"
    /\ host = <<"l","o","c","a","l","h","o","s","t">>
    /\ SERVER # host
    /\ Len(sockOps) = 3
    /\ port_open

\* C9: every socket created by the Reachability Probe and by the Port Probe
\* is closed before that probe finishes: at no later point of the run is a
\* socket still open.
C9_SocketsReleased ==
    pc # "reachability" => \A i \in 1..Len(sockets) : sockets[i].state # "open"

\* C10: port_open is bound only in the host_reachable branch, the summary is
\* reached only with host_reachable and driver_available, and every read of
\* port_open finds it bound: the run never fails with UnboundLocalError.
C10_PortOpenBound ==
    /\ raised # "UnboundLocalError"
    /\ "port_open" \in bound => host_reachable
    /\ pc = "summary" =>
         /\ host_reachable /\ driver_available
         /\ ReadsPortOpen => "port_open" \in bound

\* a run whose recommendation stage read port_open as False (category 2)
C10_Witness ==
    /\ pc = "done"
    /\ recommendations = <<2>>
    /\ "port_open" \in bound

====
